---- MODULE Spec2Model ----
(***************************************************************************)
(* A model of app.py, the recruitment-data dashboard: load_data and        *)
(* clean_monthly_salary (the Loader), the module-level script that checks  *)
(* the table, asks for a selection and filters (plot_df), and tab 2's      *)
(* count_keywords and ranked keyword list (the Extractor).                 *)
(*                                                                         *)
(* Conventions.  A Python str is a sequence of one-character strings; a    *)
(* character outside ASCII is written "Uxxxx".  A spreadsheet cell is a    *)
(* tagged record (Num, NaN, Str).  A number is an exact fraction n/d with  *)
(* d > 0 (an int has d = 1).  A DataFrame is [columns, rows]: the column   *)
(* labels in order (labels may repeat after a rename) and the rows, each   *)
(* a sequence of cells aligned with the labels.  A dict is the sequence    *)
(* of its <<key, value>> items in insertion order.                         *)
(***************************************************************************)
EXTENDS Integers, Sequences, FiniteSets, TLC

VARIABLES
    file,           \* what the run finds to load: NoFile, Corrupt or a workbook
    pc,             \* position of the script run
    df,             \* the table load_data returned
    selected_jobs,  \* the sidebar selection
    plot_df,        \* the filtered table
    salary_series,  \* plot_df["salary_k"], the input of tab 1's statistics
    view_mode,      \* tab 2's radio choice
    full_text,      \* tab 2's corpus
    keyword_list,   \* the catalog handed to count_keywords
    counts,         \* count_keywords' result
    df_rank,        \* the ranked keyword list
    row,            \* the argument of a direct clean_monthly_salary call
    ret             \* its return value

vars == <<file, pc, df, selected_jobs, plot_df, salary_series, view_mode,
          full_text, keyword_list, counts, df_rank, row, ret>>

----------------------------------------------------------------------------
(* Bounds of the model *)

\* cells (columns x rows) of a workbook
MaxCells == 4
\* span of the salary values tried around 0 and around the threshold
MaxDelta == 12
\* tokens concatenated into a corpus
MaxTokens == 3
\* keywords of a catalog
MaxCatalog == 2

----------------------------------------------------------------------------
(* Helpers *)

Max(S) == CHOOSE x \in S : \A y \in S : y <= x

Range(s) == {s[i] : i \in DOMAIN s}

RECURSIVE SelectIdx(_, _, _)
\* the elements of s at the indices (in increasing order, from i on) in I
SelectIdx(s, I, i) ==
    IF i > Len(s) THEN <<>>
    ELSE IF i \in I THEN <<s[i]>> \o SelectIdx(s, I, i + 1)
    ELSE SelectIdx(s, I, i + 1)

\* every arrangement of s as a sequence
Perms(s) ==
    {[i \in DOMAIN s |-> s[f[i]]] :
        f \in {g \in [DOMAIN s -> DOMAIN s] : \A i, j \in DOMAIN s : i # j => g[i] # g[j]}}

----------------------------------------------------------------------------
(* Cells and floats *)

\* a number n/d (an int has d = 1), a missing value, a text
Frac(n, d) == [t |-> "num", n |-> n, d |-> d, s |-> <<>>]
Num(n) == Frac(n, 1)
NaN == [t |-> "nan", n |-> 0, d |-> 1, s |-> <<>>]
Str(s) == [t |-> "str", n |-> 0, d |-> 1, s |-> s]

FracEq(a, b) == a.t = "num" /\ b.t = "num" /\ a.n * b.d = b.n * a.d
FracPos(a) == a.t = "num" /\ a.n > 0

----------------------------------------------------------------------------
(* clean_monthly_salary *)

\* Series.get(key, default): the default without the label, the cell under a
\* label that occurs once, a sub-Series under a label that occurs repeatedly
Series_get(r, key, default) ==
    LET I == {i \in DOMAIN r.index : r.index[i] = key} IN
    IF I = {} THEN [kind |-> "scalar", cell |-> default]
    ELSE IF Cardinality(I) = 1
         THEN [kind |-> "scalar", cell |-> r.cells[CHOOSE i \in I : TRUE]]
         ELSE [kind |-> "series", cell |-> NaN]

\* the unit threshold of the normalisation
UnitThreshold == 1000

Returned(v) == [raised |-> FALSE, value |-> v]
Raised == [raised |-> TRUE, value |-> NaN]

\* val > 1000 with >= in its place
clean_scalar_ge(val) ==
    IF val.t = "nan" THEN Returned(Num(0))
    ELSE IF val.t = "str" THEN Raised
    ELSE IF val.n <= 0 THEN Returned(Num(0))
    ELSE IF val.n >= UnitThreshold * val.d THEN Returned(Frac(val.n, val.d * UnitThreshold))
    ELSE Returned(val)

\* the body of clean_monthly_salary on a scalar val: a str raises TypeError
\* at val <= 0
clean_scalar(val) ==
    IF val.t = "nan" THEN Returned(Num(0))
    ELSE IF val.t = "str" THEN Raised
    ELSE IF val.n <= 0 THEN Returned(Num(0))
    ELSE IF val.n > UnitThreshold * val.d THEN Returned(Frac(val.n, val.d * UnitThreshold))
    ELSE Returned(val)

\* pd.isna of a sub-Series is a Series, whose truth value raises ValueError
clean_monthly_salary(r) ==
    LET got == Series_get(r, "salary_min", Num(0)) IN
    IF got.kind = "series" THEN Raised ELSE clean_scalar(got.cell)

----------------------------------------------------------------------------
(* Strings *)

LowerChars == <<"a", "b", "c", "d", "e", "f", "g", "h", "i", "j", "k", "l", "m",
                "n", "o", "p", "q", "r", "s", "t", "u", "v", "w", "x", "y", "z">>
UpperChars == <<"A", "B", "C", "D", "E", "F", "G", "H", "I", "J", "K", "L", "M",
                "N", "O", "P", "Q", "R", "S", "T", "U", "V", "W", "X", "Y", "Z">>

\* the upper-case letter of each lower-case letter, and back
ToUpper == [c \in Range(LowerChars) |-> UpperChars[CHOOSE i \in DOMAIN LowerChars : LowerChars[i] = c]]
ToLower == [c \in Range(UpperChars) |-> LowerChars[CHOOSE i \in DOMAIN UpperChars : UpperChars[i] = c]]

upper_char(c) == IF c \in DOMAIN ToUpper THEN ToUpper[c] ELSE c

lower_char(c) == IF c \in DOMAIN ToLower THEN ToLower[c] ELSE c

\* str.upper
upper(w) == [i \in DOMAIN w |-> upper_char(w[i])]

\* str.capitalize: the first character upper-cased, the rest lower-cased
capitalize(w) == [i \in DOMAIN w |-> IF i = 1 THEN upper_char(w[i]) ELSE lower_char(w[i])]

RECURSIVE join(_, _)
\* sep.join(parts)
join(sep, parts) ==
    IF parts = <<>> THEN <<>>
    ELSE IF Len(parts) = 1 THEN parts[1]
    ELSE parts[1] \o sep \o join(sep, Tail(parts))

----------------------------------------------------------------------------
(* re.escape, re.findall *)

\* the characters re.escape puts a backslash before (those the model's texts use)
SpecialChars == {"+", ".", "#", " ", "-", "\\"}

RECURSIVE re_escape(_)
re_escape(w) ==
    IF w = <<>> THEN <<>>
    ELSE (IF w[1] \in SpecialChars THEN <<"\\", w[1]>> ELSE <<w[1]>>) \o re_escape(Tail(w))

\* a pattern handed to the regex compiler as written
re_escape_none(w) == w

Lit(c) == [c |-> c, any |-> FALSE, plus |-> FALSE]
AnyChar == [c |-> ".", any |-> TRUE, plus |-> FALSE]

RECURSIVE compile_from(_, _, _)
\* the atoms of a pattern: \c is the literal c, . is any character, + repeats
\* the atom before it (re.error without one, or after another +)
compile_from(p, i, atoms) ==
    IF i > Len(p) THEN [ok |-> TRUE, atoms |-> atoms]
    ELSE IF p[i] = "\\"
         THEN IF i = Len(p) THEN [ok |-> FALSE, atoms |-> <<>>]
              ELSE compile_from(p, i + 2, Append(atoms, Lit(p[i + 1])))
    ELSE IF p[i] = "."
         THEN compile_from(p, i + 1, Append(atoms, AnyChar))
    ELSE IF p[i] = "+"
         THEN IF atoms = <<>> \/ atoms[Len(atoms)].plus
              THEN [ok |-> FALSE, atoms |-> <<>>]
              ELSE compile_from(p, i + 1,
                       [atoms EXCEPT ![Len(atoms)] = [@ EXCEPT !.plus = TRUE]])
    ELSE compile_from(p, i + 1, Append(atoms, Lit(p[i])))

re_compile(p) == compile_from(p, 1, <<>>)

atom_matches(a, ch, ignorecase) ==
    \/ a.any
    \/ IF ignorecase THEN lower_char(a.c) = lower_char(ch) ELSE a.c = ch

RECURSIVE run_length(_, _, _, _)
\* how many characters from pos on the atom matches in a row
run_length(a, text, pos, ignorecase) ==
    IF pos > Len(text) \/ ~atom_matches(a, text[pos], ignorecase) THEN 0
    ELSE 1 + run_length(a, text, pos + 1, ignorecase)

RECURSIVE match_end(_, _, _, _, _)
\* the position after the match of atoms[k..] that starts at pos, 0 without
\* one; a repeated atom takes as many characters as lets the rest match
match_end(atoms, k, text, pos, ignorecase) ==
    IF k > Len(atoms) THEN pos
    ELSE IF pos > Len(text) \/ ~atom_matches(atoms[k], text[pos], ignorecase) THEN 0
    ELSE IF ~atoms[k].plus THEN match_end(atoms, k + 1, text, pos + 1, ignorecase)
    ELSE LET run == run_length(atoms[k], text, pos, ignorecase)
             ok == {n \in 1..run : match_end(atoms, k + 1, text, pos + n, ignorecase) # 0}
         IN  IF ok = {} THEN 0
             ELSE match_end(atoms, k + 1, text, pos + Max(ok), ignorecase)

RECURSIVE findall_from(_, _, _, _)
\* the number of matches re.findall lists from pos on: leftmost first, the
\* scan resuming after each match (one position on after an empty match)
findall_from(atoms, text, pos, ignorecase) ==
    IF pos > Len(text) + 1 THEN 0
    ELSE LET e == match_end(atoms, 1, text, pos, ignorecase) IN
         IF e = 0 THEN findall_from(atoms, text, pos + 1, ignorecase)
         ELSE 1 + findall_from(atoms, text, IF e > pos THEN e ELSE pos + 1, ignorecase)

\* len(re.findall(pattern, text, re.IGNORECASE))
findall_len(atoms, text) == findall_from(atoms, text, 1, TRUE)

----------------------------------------------------------------------------
(* count_keywords *)

W_HTML == <<"H", "T", "M", "L">>
W_CSS == <<"C", "S", "S">>
W_SQL == <<"S", "Q", "L">>
W_Java == <<"J", "a", "v", "a">>
W_Python == <<"P", "y", "t", "h", "o", "n">>

display_name(word) ==
    IF upper(word) \in {W_HTML, W_CSS, W_SQL} THEN upper(word)
    ELSE IF capitalize(word) \in {W_Java, W_Python} THEN capitalize(word)
    ELSE word

\* d[key] = value on a dict: a new key goes last, a known key keeps its place
dict_set(d, key, value) ==
    IF \E i \in DOMAIN d : d[i][1] = key
    THEN [i \in DOMAIN d |-> IF d[i][1] = key THEN <<key, value>> ELSE d[i]]
    ELSE Append(d, <<key, value>>)

\* the pattern count_keywords compiles for a word
word_pattern(word) == re_escape(word)

\* the number of matches count_keywords finds for a compiled pattern
word_matches(atoms, text) == findall_len(atoms, text)

\* if matches > 0
keep_match(matches) == matches > 0

RECURSIVE count_from(_, _, _, _)
\* the loop of count_keywords from the i-th word on
count_from(text, words, i, acc) ==
    IF i > Len(words) THEN [raised |-> FALSE, counts |-> acc]
    ELSE LET c == re_compile(word_pattern(words[i])) IN
         IF ~c.ok THEN [raised |-> TRUE, counts |-> <<>>]
         ELSE LET matches == word_matches(c.atoms, text) IN
              count_from(text, words, i + 1,
                  IF keep_match(matches)
                  THEN dict_set(acc, display_name(words[i]), matches)
                  ELSE acc)

count_keywords(text, words) == count_from(text, words, 1, <<>>)

TECH_STACK_LIST ==
    << <<"J","a","v","a">>,
       <<"P","y","t","h","o","n">>,
       <<"C","+","+">>,
       <<"C","#">>,
       <<"G","o">>,
       <<"G","o","l","a","n","g">>,
       <<"P","H","P">>,
       <<"R","u","b","y">>,
       <<"R","u","s","t">>,
       <<"S","w","i","f","t">>,
       <<"K","o","t","l","i","n">>,
       <<"J","a","v","a","S","c","r","i","p","t">>,
       <<"T","y","p","e","S","c","r","i","p","t">>,
       <<"H","T","M","L">>,
       <<"C","S","S">>,
       <<"V","u","e">>,
       <<"R","e","a","c","t">>,
       <<"A","n","g","u","l","a","r">>,
       <<"N","o","d","e">>,
       <<"N","o","d","e",".","j","s">>,
       <<"S","p","r","i","n","g">>,
       <<"S","p","r","i","n","g","B","o","o","t">>,
       <<"S","p","r","i","n","g","C","l","o","u","d">>,
       <<"M","y","B","a","t","i","s">>,
       <<"H","i","b","e","r","n","a","t","e">>,
       <<"J","V","M">>,
       <<"N","e","t","t","y">>,
       <<"M","y","S","Q","L">>,
       <<"R","e","d","i","s">>,
       <<"O","r","a","c","l","e">>,
       <<"M","o","n","g","o","D","B">>,
       <<"P","o","s","t","g","r","e","S","Q","L">>,
       <<"S","Q","L">>,
       <<"N","o","S","Q","L">>,
       <<"L","i","n","u","x">>,
       <<"S","h","e","l","l">>,
       <<"B","a","s","h">>,
       <<"D","o","c","k","e","r">>,
       <<"K","8","s">>,
       <<"K","u","b","e","r","n","e","t","e","s">>,
       <<"N","g","i","n","x">>,
       <<"G","i","t">>,
       <<"J","e","n","k","i","n","s">>,
       <<"C","I","/","C","D">>,
       <<"K","a","f","k","a">>,
       <<"R","a","b","b","i","t","M","Q">>,
       <<"R","o","c","k","e","t","M","Q">>,
       <<"E","l","a","s","t","i","c","s","e","a","r","c","h">>,
       <<"H","a","d","o","o","p">>,
       <<"S","p","a","r","k">>,
       <<"F","l","i","n","k">>,
       <<"H","i","v","e">>,
       <<"T","e","n","s","o","r","F","l","o","w">>,
       <<"P","y","T","o","r","c","h">>,
       <<"L","L","M">>,
       <<"N","L","P">>,
       <<"C","V">>,
       <<"T","r","a","n","s","f","o","r","m","e","r">>,
       <<"B","E","R","T">>,
       <<"G","P","T">> >>

SOFT_SKILLS_LIST ==
    << <<"U6C9F","U901A">>,
       <<"U56E2","U961F">>,
       <<"U534F","U4F5C">>,
       <<"U8D23","U4EFB","U5FC3">>,
       <<"U6297","U538B">>,
       <<"U5B66","U4E60","U80FD","U529B">>,
       <<"U903B","U8F91","U601D","U7EF4">>,
       <<"U81EA","U9A71","U529B">>,
       <<"U70ED","U60C5">>,
       <<"U7EC6","U5FC3">>,
       <<"U89E3","U51B3","U95EE","U9898">>,
       <<"U6267","U884C","U529B">>,
       <<"U82F1","U8BED">>,
       <<"U6587","U6863","U80FD","U529B">>,
       <<"U79EF","U6781">>,
       <<"U4E3B","U52A8">>,
       <<"U4E50","U89C2">>,
       <<"U521B","U65B0">>,
       <<"U4E25","U8C28">>,
       <<"U8BDA","U4FE1">>,
       <<"U523B","U82E6">>,
       <<"U9002","U5E94","U80FD","U529B">>,
       <<"U6570","U636E","U7ED3","U6784">>,
       <<"U7B97","U6CD5">>,
       <<"U591A","U7EBF","U7A0B">>,
       <<"U6D88","U606F","U5FAA","U73AF">>,
       <<"U8BA1","U7B97","U673A","U7F51","U7EDC">>,
       <<"U64CD","U4F5C","U7CFB","U7EDF">>,
       <<"U6570","U636E","U5E93">>,
       <<"U8BA1","U7B97","U673A","U7EC4","U6210">>,
       <<"U672C","U79D1">>,
       <<"U7855","U58EB">>,
       <<"U535A","U58EB">>,
       <<"U8BA1","U7B97","U673A">>,
       <<"U8F6F","U4EF6","U5DE5","U7A0B">> >>

----------------------------------------------------------------------------
(* DataFrames *)

\* pd.DataFrame()
EmptyFrame == [columns |-> <<>>, rows |-> <<>>]

\* DataFrame.empty: an axis of length 0
frame_empty(d) == Len(d.columns) = 0 \/ Len(d.rows) = 0

has_column(d, name) == \E i \in DOMAIN d.columns : d.columns[i] = name

\* the positions of the columns labelled name
column_idx(d, name) == {i \in DOMAIN d.columns : d.columns[i] = name}

\* d[name] for a label that occurs once: the column's cells, row by row
column(d, name) ==
    LET c == CHOOSE i \in column_idx(d, name) : TRUE IN
    [i \in DOMAIN d.rows |-> d.rows[i][c]]

\* d[mask]: the rows whose position is in keep, in order
filter_rows(d, keep) == [d EXCEPT !.rows = SelectIdx(d.rows, keep, 1)]

RECURSIVE unique_from(_, _, _)
\* Series.unique(): the distinct values in order of first appearance
unique_from(s, i, acc) ==
    IF i > Len(s) THEN acc
    ELSE unique_from(s, i + 1, IF s[i] \in Range(acc) THEN acc ELSE Append(acc, s[i]))

unique(s) == unique_from(s, 1, <<>>)

----------------------------------------------------------------------------
(* load_data *)

\* a rename that does not know the salaryMin spelling
rename_dict_short(name) ==
    CASE name = "salarymin" -> "salary_min"
      [] name = "avg_annual_K" -> "salary_min"
      [] name = "demand" -> "demand"
      [] name = "job_detail" -> "demand"
      [] OTHER -> name

\* rename_dict, the identity on every other label
rename_dict(name) ==
    CASE name = "salarymin" -> "salary_min"
      [] name = "salaryMin" -> "salary_min"
      [] name = "avg_annual_K" -> "salary_min"
      [] name = "demand" -> "demand"
      [] name = "job_detail" -> "demand"
      [] name = "description" -> "demand"
      [] OTHER -> name

\* df.rename(columns=rename_dict)
rename_columns(d) == [d EXCEPT !.columns = [i \in DOMAIN @ |-> rename_dict(@[i])]]

\* a filter that keeps every row
valid_rows_all(d) == d

\* df[df["salary_k"] > 0]
valid_rows(d) ==
    LET k == column(d, "salary_k") IN
    filter_rows(d, {i \in DOMAIN d.rows : FracPos(k[i])})

\* the try block of load_data on the frame read_excel returned
process(read) ==
    LET d == rename_columns(read) IN
    IF has_column(d, "salary_min")
    THEN LET res == [i \in DOMAIN d.rows |->
                        clean_monthly_salary([index |-> d.columns, cells |-> d.rows[i]])]
         IN  IF \E i \in DOMAIN res : res[i].raised
             THEN [raised |-> TRUE, frame |-> EmptyFrame]
             ELSE [raised |-> FALSE,
                   frame |-> valid_rows(
                       [columns |-> Append(d.columns, "salary_k"),
                        rows |-> [i \in DOMAIN d.rows |-> Append(d.rows[i], res[i].value)]])]
    ELSE [raised |-> FALSE, frame |-> EmptyFrame]

\* an except clause that lets the exception through: no table comes back
on_exception_reraise == [raised |-> TRUE, frame |-> EmptyFrame]

\* except Exception: st.error(...), return pd.DataFrame()
on_exception == [raised |-> FALSE, frame |-> EmptyFrame]

\* load_data(file): read_excel raises on a workbook it cannot parse
load_data(f) ==
    IF f.kind = "corrupt" THEN on_exception
    ELSE LET r == process([columns |-> f.columns, rows |-> f.rows]) IN
         IF r.raised THEN on_exception ELSE r

----------------------------------------------------------------------------
(* The workbooks tried *)

SalaryAliases == <<"salary_min", "salarymin", "salaryMin", "avg_annual_K">>
DemandAliases == <<"demand", "job_detail", "description">>

\* the column names tried, in the order a workbook lists them
ColOrder == <<"keyword", "salary_min", "salarymin", "salaryMin", "avg_annual_K",
              "salary_display", "demand", "job_detail", "description">>

T_be == <<"b", "e">>
T_fe == <<"f", "e">>
T_range == <<"2", "0", "-", "3", "0">>
T_text == <<"a", "b", "c">>
T_jd == <<"J", "A", "V", "A", " ", "C", "+", "+", " ", "U6C9F", "U901A">>

CellsOf(name) ==
    IF name = "keyword" THEN {Str(T_be), Str(T_fe), NaN}
    ELSE IF name \in Range(SalaryAliases) THEN {NaN, Num(0), Num(20), Num(20000), Str(T_text)}
    ELSE IF name \in Range(DemandAliases) THEN {NaN, Str(T_jd)}
    ELSE {Str(T_range)}

RECURSIVE RowSet(_, _)
\* the rows of a workbook with columns cols, from column i on
RowSet(cols, i) ==
    IF i > Len(cols) THEN {<<>>}
    ELSE {<<c>> \o r : c \in CellsOf(cols[i]), r \in RowSet(cols, i + 1)}

NoFile == [kind |-> "none", columns |-> <<>>, rows |-> <<>>]
Corrupt == [kind |-> "corrupt", columns |-> <<>>, rows |-> <<>>]

\* f is a workbook of at most MaxCells cells: some of the columns, some rows
IsWorkbook(f) ==
    \E hs \in SUBSET DOMAIN ColOrder :
       \E n \in 0..MaxCells :
          /\ n * Cardinality(hs) <= MaxCells
          /\ hs = {} => n = 0
          /\ \E rs \in [1..n -> RowSet(SelectIdx(ColOrder, hs, 1), 1)] :
                f = [kind |-> "workbook", columns |-> SelectIdx(ColOrder, hs, 1), rows |-> rs]

----------------------------------------------------------------------------
(* The corpora, catalogs and salary records tried *)

Tokens == {<<"a">>, <<"+">>, <<"J", "A", "V", "A">>, <<"c", "s", "s">>}

Keywords == {<<"a", "a">>, <<"a", "+">>, W_Java, <<"j", "a", "v", "a">>, W_CSS, <<>>}

RECURSIVE TokenTexts(_)
\* the concatenations of at most n tokens
TokenTexts(n) ==
    IF n = 0 THEN {<<>>}
    ELSE LET shorter == TokenTexts(n - 1) IN
         shorter \cup {t \o k : t \in shorter, k \in Tokens}

Catalogs == UNION {[1..n -> Keywords] : n \in 0..MaxCatalog}

SalaryValues ==
    {Num(n) : n \in (0 - MaxDelta)..MaxDelta}
    \cup {Num(UnitThreshold + n) : n \in (0 - MaxDelta)..MaxDelta}
    \cup {Num(UnitThreshold * n) : n \in 1..MaxDelta}
    \cup {Frac(2 * UnitThreshold + n, 2) : n \in {-1, 1}}
    \cup {NaN, Str(T_text)}

SalaryRecords ==
    {[index |-> <<"salary_min">>, cells |-> <<v>>] : v \in SalaryValues}
    \cup {[index |-> <<"keyword", "salary_min">>, cells |-> <<Str(T_be), v>>] :
            v \in SalaryValues}
    \cup {[index |-> <<"keyword">>, cells |-> <<Str(T_be)>>]}

----------------------------------------------------------------------------
(* The script run *)

NoReturn == Returned(NaN)
NoRecord == [index |-> <<>>, cells |-> <<>>]

Idle ==
    /\ df = EmptyFrame
    /\ selected_jobs = {}
    /\ plot_df = EmptyFrame
    /\ salary_series = <<>>
    /\ view_mode = "none"
    /\ counts = <<>>
    /\ df_rank = <<>>
    /\ ret = NoReturn

\* a run of the script on what the uploader or the default path holds
Init ==
    /\ \/ file \in {NoFile, Corrupt}
       \/ IsWorkbook(file)
    /\ pc = "start"
    /\ full_text = <<>>
    /\ keyword_list = <<>>
    /\ row = NoRecord
    /\ Idle

\* df = load_data(uploaded_file or DEFAULT_FILE), when there is one
Load ==
    /\ pc = "start"
    /\ LET r == IF file.kind = "none"
                THEN [raised |-> FALSE, frame |-> EmptyFrame]
                ELSE load_data(file) IN
       IF r.raised
       THEN pc' = "uncaught" /\ df' = df
       ELSE pc' = "loaded" /\ df' = r.frame
    /\ UNCHANGED <<file, selected_jobs, plot_df, salary_series, view_mode,
                   full_text, keyword_list, counts, df_rank, row, ret>>

\* if df.empty: st.warning(...); st.stop()
CheckEmpty ==
    /\ pc = "loaded"
    /\ pc' = IF frame_empty(df) THEN "stop_nodata" ELSE "sidebar"
    /\ UNCHANGED <<file, df, selected_jobs, plot_df, salary_series, view_mode,
                   full_text, keyword_list, counts, df_rank, row, ret>>

\* Series.isin that never matches a missing value
isin_no_nan(cell, values) == cell.t # "nan" /\ cell \in values

\* Series.isin(values), cell by cell: a missing value matches a missing value
isin(cell, values) == cell \in values

\* all_kw, the multiselect (any sub-list of its options), the stop on an empty
\* selection, and plot_df = df[df["keyword"].isin(selected_jobs)]
Select ==
    /\ pc = "sidebar"
    /\ LET all_kw == IF has_column(df, "keyword")
                     THEN unique(column(df, "keyword")) ELSE <<>> IN
       \E sel \in SUBSET Range(all_kw) :
          /\ selected_jobs' = sel
          /\ IF sel = {}
             THEN pc' = "stop_noselect" /\ plot_df' = plot_df
             ELSE /\ pc' = "tab1"
                  /\ plot_df' = filter_rows(df,
                        {i \in DOMAIN df.rows : isin(column(df, "keyword")[i], sel)})
    /\ UNCHANGED <<file, df, salary_series, view_mode, full_text, keyword_list,
                   counts, df_rank, row, ret>>

\* tab 1: the mean, the median, the box plot and the bar chart, all of
\* plot_df["salary_k"]
Tab1 ==
    /\ pc = "tab1"
    /\ salary_series' = column(plot_df, "salary_k")
    /\ pc' = "tab2"
    /\ UNCHANGED <<file, df, selected_jobs, plot_df, view_mode, full_text,
                   keyword_list, counts, df_rank, row, ret>>

\* " ".join(plot_df["demand"].dropna().astype(str).tolist())
demand_text(d) ==
    LET c == column(d, "demand")
        present == {i \in DOMAIN c : c[i].t # "nan"}
    IN  join(<<" ">>, [i \in DOMAIN SelectIdx(c, present, 1) |-> SelectIdx(c, present, 1)[i].s])

\* tab 2 up to the call of count_keywords: the stop without a demand column,
\* the radio, the corpus (two columns labelled demand make plot_df["demand"]
\* a DataFrame, which has no tolist: AttributeError)
Tab2 ==
    /\ pc = "tab2"
    /\ IF ~has_column(plot_df, "demand")
       THEN pc' = "stop_nodemand" /\ UNCHANGED <<view_mode, full_text, keyword_list>>
       ELSE \E vm \in {"tech", "soft"} :
               /\ view_mode' = vm
               /\ IF Cardinality(column_idx(plot_df, "demand")) > 1
                  THEN pc' = "uncaught" /\ UNCHANGED <<full_text, keyword_list>>
                  ELSE /\ full_text' = demand_text(plot_df)
                       /\ keyword_list' = IF vm = "tech" THEN TECH_STACK_LIST
                                          ELSE SOFT_SKILLS_LIST
                       /\ pc' = "count"
    /\ UNCHANGED <<file, df, selected_jobs, plot_df, salary_series, counts,
                   df_rank, row, ret>>

\* counts = count_keywords(full_text, ...); if counts: ... else: st.warning(...)
Count ==
    /\ pc = "count"
    /\ LET r == count_keywords(full_text, keyword_list) IN
       IF r.raised
       THEN pc' = "uncaught" /\ counts' = counts
       ELSE /\ counts' = r.counts
            /\ pc' = IF r.counts # <<>> THEN "draw" ELSE "warn_nomatch"
    /\ UNCHANGED <<file, df, selected_jobs, plot_df, salary_series, view_mode,
                   full_text, keyword_list, df_rank, row, ret>>

\* the word cloud raises (no font, ...): except Exception: st.error(...)
WordCloudFails ==
    /\ pc = "draw"
    /\ pc' = "wordcloud_error"
    /\ UNCHANGED <<file, df, selected_jobs, plot_df, salary_series, view_mode,
                   full_text, keyword_list, counts, df_rank, row, ret>>

\* the rows df_rank.head(20) shows
RankHead == 20

head(s, n) == SubSeq(s, 1, IF Len(s) < n THEN Len(s) ELSE n)

\* sort_values("the count column", ascending=False): the default kind is quicksort,
\* which is not stable, so rows of equal count come out in any order
sort_values_descending(items) ==
    {p \in Perms(items) : \A i, j \in DOMAIN p : i < j => p[i][2] >= p[j][2]}

\* the word cloud is drawn; df_rank is built from counts.items(), sorted,
\* and its head shown
Rank ==
    /\ pc = "draw"
    /\ \E sorted \in sort_values_descending(counts) :
          df_rank' = head(sorted, RankHead)
    /\ pc' = "done"
    /\ UNCHANGED <<file, df, selected_jobs, plot_df, salary_series, view_mode,
                   full_text, keyword_list, counts, row, ret>>

Next ==
    \/ Load
    \/ CheckEmpty
    \/ Select
    \/ Tab1
    \/ Tab2
    \/ Count
    \/ WordCloudFails
    \/ Rank

Spec == Init /\ [][Next]_vars

----------------------------------------------------------------------------
(* count_keywords and the ranking on any corpus and catalog *)

InitKeywords ==
    /\ file = NoFile
    /\ pc = "count"
    /\ full_text \in TokenTexts(MaxTokens)
    /\ keyword_list \in Catalogs
    /\ row = NoRecord
    /\ Idle

NextKeywords ==
    \/ Count
    \/ WordCloudFails
    \/ Rank

SpecKeywords == InitKeywords /\ [][NextKeywords]_vars

----------------------------------------------------------------------------
(* clean_monthly_salary on any record *)

InitSalary ==
    /\ file = NoFile
    /\ pc = "call"
    /\ full_text = <<>>
    /\ keyword_list = <<>>
    /\ row \in SalaryRecords
    /\ Idle

\* ret = clean_monthly_salary(row)
Clean ==
    /\ pc = "call"
    /\ ret' = clean_monthly_salary(row)
    /\ pc' = "returned"
    /\ UNCHANGED <<file, df, selected_jobs, plot_df, salary_series, view_mode,
                   full_text, keyword_list, counts, df_rank, row>>

NextSalary == Clean

SpecSalary == InitSalary /\ [][NextSalary]_vars

----------------------------------------------------------------------------
(* What the claims speak of *)

\* the salary a claim expects of a minimum-salary cell: v/1000 above 1000,
\* v up to 1000, 0 for a missing or non-positive v
ExpectedSalaryK(v) ==
    IF v.t = "num" /\ v.n > 1000 * v.d THEN Frac(v.n, 1000 * v.d)
    ELSE IF v.t = "num" /\ v.n > 0 THEN v
    ELSE Num(0)

SalaryCols(f) == {i \in DOMAIN f.columns : f.columns[i] \in Range(SalaryAliases)}
DemandCols(f) == {i \in DOMAIN f.columns : f.columns[i] \in Range(DemandAliases)}

\* the position of the salary column whose alias comes first in the precedence order
FirstSalaryCol(f) ==
    LET k == CHOOSE k \in DOMAIN SalaryAliases :
                /\ SalaryAliases[k] \in Range(f.columns)
                /\ \A j \in 1..(k - 1) : SalaryAliases[j] \notin Range(f.columns)
    IN  CHOOSE i \in DOMAIN f.columns : f.columns[i] = SalaryAliases[k]

\* the workbook with its alias columns under their canonical names
Canonical(f) ==
    [f EXCEPT !.columns =
        [i \in DOMAIN @ |->
            IF @[i] \in Range(SalaryAliases) THEN "salary_min"
            ELSE IF @[i] \in Range(DemandAliases) THEN "demand"
            ELSE @[i]]]

\* processing the workbook raises: some row is cleaned with two salary
\* columns at once, or with a text in its salary cell
ProcessingFails(f) ==
    /\ Len(f.rows) > 0
    /\ \/ Cardinality(SalaryCols(f)) > 1
       \/ /\ Cardinality(SalaryCols(f)) = 1
          /\ \E i \in DOMAIN f.rows : f.rows[i][FirstSalaryCol(f)].t = "str"

\* the salary_k values of a table, in row order
SalaryKs(d) == IF has_column(d, "salary_k") THEN column(d, "salary_k") ELSE <<>>

\* the positive ones among a sequence of salaries
Positive(ks) == SelectIdx(ks, {i \in DOMAIN ks : FracPos(ks[i])}, 1)

SameSalaries(a, b) == Len(a) = Len(b) /\ \A i \in DOMAIN a : FracEq(a[i], b[i])

\* the source rows a salary column keeps: those of positive expected salary
KeptRows(f, c) ==
    SelectIdx(f.rows, {i \in DOMAIN f.rows : FracPos(ExpectedSalaryK(f.rows[i][c]))}, 1)

Loaded == pc # "start" /\ file.kind = "workbook"

\* the statistics and rendering stage and what follows it
StatsStages == {"tab1", "tab2", "stop_nodemand", "count", "draw", "warn_nomatch",
                "wordcloud_error", "done"}

SameFold(a, b) == Len(a) = Len(b) /\ \A i \in DOMAIN a : lower_char(a[i]) = lower_char(b[i])

RECURSIVE Occ(_, _, _)
\* the non-overlapping, case-insensitive occurrences of the literal w in
\* text from pos on, counted left to right
Occ(w, text, pos) ==
    IF pos + Len(w) - 1 > Len(text) THEN 0
    ELSE IF SameFold(SubSeq(text, pos, pos + Len(w) - 1), w)
         THEN 1 + Occ(w, text, pos + (IF Len(w) = 0 THEN 1 ELSE Len(w)))
         ELSE Occ(w, text, pos + 1)

Counted == pc \in {"draw", "warn_nomatch", "wordcloud_error", "done"}

\* the mapping has an entry for a keyword exactly when the keyword occurs,
\* and the entry's value is the number of its occurrences
EntriesAreOccurrences ==
    /\ \A k \in DOMAIN keyword_list :
          LET w == keyword_list[k]
              n == Occ(w, full_text, 1)
          IN  /\ (n > 0) <=> (\E i \in DOMAIN counts : SameFold(counts[i][1], w))
              /\ \A i \in DOMAIN counts : SameFold(counts[i][1], w) => counts[i][2] = n
    /\ \A i \in DOMAIN counts :
          /\ counts[i][2] > 0
          /\ \E k \in DOMAIN keyword_list : SameFold(counts[i][1], keyword_list[k])
    /\ \A i, j \in DOMAIN counts : i # j => counts[i][1] # counts[j][1]

DigitChars == <<"0", "1", "2", "3", "4", "5", "6", "7", "8", "9">>
IsDigit(c) == c \in Range(DigitChars)
DigitVal(c) == (CHOOSE i \in DOMAIN DigitChars : DigitChars[i] = c) - 1

RECURSIVE ToInt(_)
ToInt(s) == IF s = <<>> THEN 0 ELSE 10 * ToInt(SubSeq(s, 1, Len(s) - 1)) + DigitVal(s[Len(s)])

\* parseSalary of the specification: the mean of the two integers of the
\* first "a-b" in the display string, else 0
parse_salary(cell) ==
    LET s == cell.s
        starts == {i \in DOMAIN s :
                     \E j \in (i + 1)..(Len(s) - 1) :
                        /\ \A k \in i..(j - 1) : IsDigit(s[k])
                        /\ s[j] = "-"
                        /\ IsDigit(s[j + 1])}
    IN  IF cell.t # "str" \/ starts = {} THEN Num(0)
        ELSE LET i == CHOOSE i \in starts : \A k \in starts : i <= k
                 j == CHOOSE j \in (i + 1)..(Len(s) - 1) :
                         s[j] = "-" /\ \A k \in i..(j - 1) : IsDigit(s[k])
                 e == CHOOSE e \in (j + 1)..Len(s) :
                         /\ \A k \in (j + 1)..e : IsDigit(s[k])
                         /\ e = Len(s) \/ ~IsDigit(s[e + 1])
             IN  Frac(ToInt(SubSeq(s, i, j - 1)) + ToInt(SubSeq(s, j + 1, e)), 2)

----------------------------------------------------------------------------
(* The claims *)

C2_EveryRowKept ==
    (Loaded /\ Cardinality(SalaryCols(file)) = 1) =>
        /\ Len(df.rows) = Len(file.rows)
        /\ \A i \in DOMAIN df.rows :
              LET c == FirstSalaryCol(file) IN
              /\ SubSeq(df.rows[i], 1, Len(file.columns)) = file.rows[i]
              /\ FracEq(df.rows[i][Len(df.rows[i])], ExpectedSalaryK(file.rows[i][c]))

\* C2, amended: for a source with a salary column, load_data returns exactly
\* the source rows whose salary normalizes to a value > 0, in source row
\* order, each carrying its salaryK: the Loader itself drops the rows whose
\* salaryK is 0.  When cleaning raises (two salary aliases at once, a text
\* in a salary cell) the table is empty.
C2_PositiveRowsKept ==
    (Loaded /\ SalaryCols(file) # {}) =>
        IF ProcessingFails(file) \/ Cardinality(SalaryCols(file)) > 1
        THEN frame_empty(df)
        ELSE LET c == FirstSalaryCol(file)
                 kept == KeptRows(file, c)
             IN  /\ Len(df.rows) = Len(kept)
                 /\ df.columns = Append(Canonical(file).columns, "salary_k")
                 /\ \A i \in DOMAIN kept :
                       /\ SubSeq(df.rows[i], 1, Len(file.columns)) = kept[i]
                       /\ FracEq(df.rows[i][Len(df.rows[i])], ExpectedSalaryK(kept[i][c]))

\* C2's case: a two-row source whose first row normalizes to 0 and whose
\* second row is the one record returned
C2_Witness ==
    /\ pc = "loaded"
    /\ file.kind = "workbook"
    /\ Cardinality(SalaryCols(file)) = 1
    /\ Len(file.rows) = 2
    /\ ~FracPos(ExpectedSalaryK(file.rows[1][FirstSalaryCol(file)]))
    /\ Len(df.rows) = 1
    /\ SubSeq(df.rows[1], 1, Len(file.columns)) = file.rows[2]

\* C3: a table whose salary column goes by exactly one alias loads to the
\* same records and salaryK values as the same data under salary_min, and a
\* description column under job_detail or description is exposed as demand
\* as if it had been named demand.
C3_AliasEquivalence ==
    (Loaded /\ Cardinality(SalaryCols(file)) = 1 /\ Cardinality(DemandCols(file)) <= 1) =>
        /\ df = load_data(Canonical(file)).frame
        /\ (DemandCols(file) # {} /\ ~frame_empty(df)) =>
              \E i \in DemandCols(file) :
                 /\ df.columns[i] = "demand"
                 /\ \A r \in DOMAIN df.rows : \E q \in DOMAIN file.rows :
                       df.rows[r][i] = file.rows[q][i]

\* C3's case: a source with the columns salaryMin and job_detail has been
\* loaded and its record is there, with salary_k and demand
C3_Witness ==
    /\ pc = "loaded"
    /\ file.kind = "workbook"
    /\ file.columns = <<"salaryMin", "job_detail">>
    /\ Len(df.rows) = 1
    /\ df.columns = <<"salary_min", "demand", "salary_k">>
    /\ df.rows[1][2] = Str(T_jd)

\* C4: with two or more salary aliases at once, load_data computes salaryK
\* from the first alias in the precedence order, ignores the others, and
\* returns the records (stated of the records of positive salary, and of
\* sources whose first salary column holds no text).
C4_FirstAliasWins ==
    (/\ Loaded
     /\ Cardinality(SalaryCols(file)) >= 2
     /\ \A i \in DOMAIN file.rows : file.rows[i][FirstSalaryCol(file)].t # "str") =>
        SameSalaries(
            Positive(SalaryKs(df)),
            Positive([i \in DOMAIN file.rows |->
                        ExpectedSalaryK(file.rows[i][FirstSalaryCol(file)])]))

\* C5: without any salary alias, load_data falls back to the salary display
\* string (the mean of the two integers of an "a-b" range, else 0) and still
\* returns the records (stated of the records of positive salary).
C5_DisplayFallback ==
    (Loaded /\ SalaryCols(file) = {} /\ "salary_display" \in Range(file.columns)) =>
        LET c == CHOOSE i \in DOMAIN file.columns : file.columns[i] = "salary_display" IN
        SameSalaries(
            Positive(SalaryKs(df)),
            Positive([i \in DOMAIN file.rows |-> parse_salary(file.rows[i][c])]))

\* C6: when reading or processing the source fails, load_data does not raise:
\* it returns an empty table, and the run stops at the no-data warning
\* without any filtering, statistics or rendering step.
C6_FailureIsNoData ==
    (pc # "start" /\ (file.kind = "corrupt" \/ ProcessingFails(file))) =>
        /\ pc \in {"loaded", "stop_nodata"}
        /\ frame_empty(df)
        /\ selected_jobs = {}
        /\ plot_df = EmptyFrame
        /\ salary_series = <<>>
        /\ view_mode = "none"
        /\ counts = <<>>
        /\ df_rank = <<>>

\* C6's case: a workbook with a text in a salary cell has ended at the
\* no-data warning
C6_Witness ==
    /\ pc = "stop_nodata"
    /\ file.kind = "workbook"
    /\ Cardinality(SalaryCols(file)) = 1
    /\ ProcessingFails(file)
    /\ df = EmptyFrame

CatalogPos(key) ==
    CHOOSE k \in DOMAIN keyword_list :
        /\ display_name(keyword_list[k]) = key
        /\ \A j \in 1..(k - 1) : display_name(keyword_list[j]) # key

C9_NoZeroSalaryInStatistics ==
    /\ \A i \in DOMAIN SalaryKs(df) : SalaryKs(df)[i].t = "num" /\ SalaryKs(df)[i].n >= 0
    /\ pc \in (StatsStages \ {"tab1"}) =>
          /\ salary_series = SalaryKs(plot_df)
          /\ Len(salary_series) = Len(plot_df.rows)
          /\ \A i \in DOMAIN salary_series : FracPos(salary_series[i])
          /\ \A i \in DOMAIN plot_df.rows :
                LET c == CHOOSE c \in DOMAIN plot_df.columns :
                            plot_df.columns[c] = "salary_min" IN
                FracPos(ExpectedSalaryK(plot_df.rows[i][c]))

\* C9's case: the statistics of a selection were computed from one record
\* while the source held a second of salary 0
C9_Witness ==
    /\ pc = "tab2"
    /\ Len(file.rows) = 2
    /\ Cardinality(SalaryCols(file)) = 1
    /\ \E i \in DOMAIN file.rows : ~FracPos(ExpectedSalaryK(file.rows[i][FirstSalaryCol(file)]))
    /\ Len(salary_series) = 1

\* the rows of d whose keyword is in sel, in order
KeywordRows(d, sel) ==
    LET c == CHOOSE c \in DOMAIN d.columns : d.columns[c] = "keyword" IN
    SelectIdx(d.rows, {i \in DOMAIN d.rows : d.rows[i][c] \in sel}, 1)

\* C10: the statistics and rendering stage is reached only with a non-empty
\* loaded table and a non-empty selection; there plot_df is non-empty and is
\* exactly the loaded records whose keyword is selected, in loaded order; a
\* loaded table without a keyword column stops at the selection prompt, and
\* the keyword filter never fails.
C10_StatsOnlyOnSelection ==
    /\ pc \in StatsStages =>
          /\ ~frame_empty(df)
          /\ selected_jobs # {}
          /\ has_column(df, "keyword")
          /\ ~frame_empty(plot_df)
          /\ plot_df.columns = df.columns
          /\ plot_df.rows = KeywordRows(df, selected_jobs)
    /\ (pc \notin {"start", "loaded", "stop_nodata"} /\ ~has_column(df, "keyword")) =>
          pc \in {"sidebar", "stop_noselect"}
    /\ pc = "uncaught" => salary_series # <<>>

\* C10's case: one of two keywords selected, plot_df the one record of two
C10_Witness ==
    /\ pc = "tab1"
    /\ Len(df.rows) = 2
    /\ Cardinality(selected_jobs) = 1
    /\ Len(plot_df.rows) = 1
    /\ plot_df.rows[1] = df.rows[2]


====
